---- MODULE Spec2Model ----
(***************************************************************************)
(* A model of src/main.py, the CTA Bus Tracker client: four synchronous    *)
(* calls (get_bus_routes, get_bus_vehicles, get_bus_routes_with_key,       *)
(* get_bus_stops_with_key), each one HTTP GET followed by the handling of  *)
(* the response.  Python str values that the code takes apart (column      *)
(* labels, the vid parameter) are sequences of one-character strings;      *)
(* every other str is an atom.                                             *)
(***************************************************************************)
EXTENDS Integers, Sequences, FiniteSets, TLC

VARIABLES
    API_KEY,        \* the module global of line 9
    pandasRange,    \* the installed pandas labels an empty frame with a RangeIndex (2.0 and later)
    pc,             \* "idle", "awaiting" (inside requests.get) or "returned"
    op,             \* the function being called
    args,           \* its arguments
    params,         \* the params dict handed to requests.get
    gets,           \* requests.get calls issued by the current call
    response,       \* what requests.get produced for the current call
    result,         \* the value the last call returned
    raised,         \* the exception the last call let escape, "" when none
    printed,        \* the lines the last call printed
    prev            \* an earlier completed call, kept for comparison

vars == <<API_KEY, pandasRange, pc, op, args, params, gets, response, result, raised, printed, prev>>

----------------------------------------------------------------------------
(* Bounds of the model. *)

MaxRecs == 2        \* longest list of records in a response
MaxIds == 2         \* longest vehicle_ids list

----------------------------------------------------------------------------
(* Strings. *)

Whitespace == {" ", "\t"}

RECURSIVE LStrip(_)
LStrip(s) == IF s # <<>> /\ Head(s) \in Whitespace THEN LStrip(Tail(s)) ELSE s

RECURSIVE RStrip(_)
RStrip(s) ==
    IF s # <<>> /\ s[Len(s)] \in Whitespace THEN RStrip(SubSeq(s, 1, Len(s) - 1)) ELSE s

StripLeftOnly(s) == LStrip(s)

\* str.strip(): leading and trailing whitespace removed, the inside kept.
Strip(s) == RStrip(LStrip(s))

Digit(d) == <<"0", "1", "2", "3", "4", "5", "6", "7", "8", "9">>[d + 1]

RECURSIVE Decimal(_)
Decimal(n) == IF n < 10 THEN <<Digit(n)>> ELSE Decimal(n \div 10) \o <<Digit(n % 10)>>

\* str(vid) of line 45: an int becomes its decimal digits, a str is itself.
Str(v) == IF v.t = "int" THEN Decimal(v.n) ELSE v.s

RECURSIVE JoinTrailing(_)
JoinTrailing(parts) ==
    IF parts = <<>> THEN <<>> ELSE Head(parts) \o <<",">> \o JoinTrailing(Tail(parts))

\* ",".join(parts): the separator between the parts only.
RECURSIVE Join(_)
Join(parts) ==
    IF parts = <<>> THEN <<>>
    ELSE IF Len(parts) = 1 THEN Head(parts)
    ELSE Head(parts) \o <<",">> \o Join(Tail(parts))

----------------------------------------------------------------------------
(* Records, as xmltodict.parse and response.json() hand them over: a       *)
(* mapping from field names to str values, its keys in document order.     *)

rt == <<"r", "t">>
rtLead == <<" ", "r", "t">>
rtnmTrail == <<"n", " ", "m", "\t">>

FieldOrder == <<rt, rtLead, rtnmTrail>>
FieldNames == {FieldOrder[i] : i \in DOMAIN FieldOrder}
Values == {"151", "Sheridan"}

Records == UNION {[S -> Values] : S \in (SUBSET FieldNames) \ {{}}}

Keys(rec) == SelectSeq(FieldOrder, LAMBDA n : n \in DOMAIN rec)

RecordLists(lo, hi) == UNION {[1..n -> Records] : n \in lo..hi}

----------------------------------------------------------------------------
(* The values found under the record key of a parsed response.  xmltodict  *)
(* gives a bare mapping for one element, a list for two or more and None   *)
(* for an empty element; json gives a list.                                *)

Bare(rec) == [shape |-> "mapping", items |-> <<rec>>]
ListOf(recs) == [shape |-> "list", items |-> recs]
NoneValue == [shape |-> "None", items |-> <<>>]
ListOfNone == [shape |-> "listOfNone", items |-> <<>>]
Absent == [shape |-> "absent", items |-> <<>>]

XmlRecs ==
    {Absent, NoneValue} \cup {Bare(rec) : rec \in Records}
        \cup {ListOf(l) : l \in RecordLists(2, MaxRecs)}

JsonRecords == [{rt} -> Values]
JsonRecs == {Absent} \cup {ListOf(l) : l \in UNION {[1..n -> JsonRecords] : n \in 0..MaxRecs}}

(* The value under the error key: absent, a mapping with a msg, a mapping  *)
(* without one, or a list of mappings.                                     *)
NoError == [shape |-> "absent", msg |-> ""]
Errors ==
    {NoError, [shape |-> "msg", msg |-> "No API key"], [shape |-> "nomsg", msg |-> ""],
     [shape |-> "list", msg |-> "No API key"]}
JsonErrors == {NoError, [shape |-> "list", msg |-> "No API key"]}

(* What requests.get produces: a transport outcome and, when the status is *)
(* 2xx, a body.  wellFormed: the body parses; br: what the parsed body     *)
(* holds under "bustime-response".                                         *)
Failure(t) == [transport |-> t, wellFormed |-> FALSE, br |-> "absent", error |-> NoError, rec |-> Absent]
Ok(wf, br, e, v) == [transport |-> "OK", wellFormed |-> wf, br |-> br, error |-> e, rec |-> v]

TransportFailures == {Failure("ConnectionError"), Failure("HTTPError")}

XmlResponses ==
    TransportFailures
        \cup {Ok(FALSE, "absent", NoError, Absent), Ok(TRUE, "absent", NoError, Absent),
              Ok(TRUE, "None", NoError, Absent)}
        \cup {Ok(TRUE, "mapping", e, v) : e \in Errors, v \in XmlRecs}

JsonResponses ==
    TransportFailures
        \cup {Ok(FALSE, "absent", NoError, Absent), Ok(TRUE, "absent", NoError, Absent)}
        \cup {Ok(TRUE, "mapping", e, Absent) : e \in JsonErrors}
        \cup {Ok(TRUE, "mapping", NoError, v) : v \in JsonRecs}

----------------------------------------------------------------------------
(* pandas. *)

NaN == "NaN"

RECURSIVE ColumnsOf(_, _)
ColumnsOf(data, seen) ==
    IF data = <<>> THEN seen
    ELSE ColumnsOf(Tail(data),
                   seen \o SelectSeq(Keys(Head(data)),
                                     LAMBDA k : \A j \in DOMAIN seen : seen[j] # k))

FrameOfRecords(data) ==
    LET cols == ColumnsOf(data, <<>>) IN
    [err |-> "",
     columns |-> cols,
     rows |-> [i \in 1..Len(data) |->
                  [j \in 1..Len(cols) |->
                      IF cols[j] \in DOMAIN data[i] THEN data[i][cols[j]] ELSE NaN]],
     strLabels |-> data # <<>> \/ ~pandasRange]

FrameError(e) == [err |-> e, columns |-> <<>>, rows |-> <<>>, strLabels |-> FALSE]

DataFrameDropLast(v) ==
    IF v.shape = "list" /\ v.items # <<>>
    THEN FrameOfRecords(SubSeq(v.items, 1, Len(v.items) - 1))
    ELSE FrameError("ValueError")

DataFrameReversed(v) ==
    IF v.shape = "list"
    THEN FrameOfRecords([i \in 1..Len(v.items) |-> v.items[Len(v.items) + 1 - i]])
    ELSE FrameError("ValueError")

(* pd.DataFrame(v).  A list of mappings: one row per mapping, the columns  *)
(* the keys in order of first appearance, NaN where a mapping has no such  *)
(* key, the values kept as they are.  The list [None]: one row under the   *)
(* integer label 0.  None: an empty frame.  A bare mapping of scalars:     *)
(* ValueError.  The labels of an empty frame are a RangeIndex from pandas  *)
(* 2.0 on and an empty object Index before.                                *)
DataFrame(v) ==
    CASE v.shape = "list" -> FrameOfRecords(v.items)
      [] v.shape = "listOfNone" ->
            [err |-> "", columns |-> <<<<"0">>>>, rows |-> <<<<"None">>>>, strLabels |-> FALSE]
      [] v.shape = "None" -> FrameOfRecords(<<>>)
      [] OTHER -> FrameError("ValueError")

(* df.columns = df.columns.str.strip(): the .str accessor raises           *)
(* AttributeError unless the labels are strings or an empty object Index.  *)
StripColumns(df) ==
    IF df.strLabels
    THEN [df EXCEPT !.columns = [j \in DOMAIN df.columns |-> Strip(df.columns[j])]]
    ELSE FrameError("AttributeError")

----------------------------------------------------------------------------
(* What a call hands back. *)

Nothing == [kind |-> "-", columns |-> <<>>, rows |-> <<>>, body |-> <<>>]
None == [kind |-> "None", columns |-> <<>>, rows |-> <<>>, body |-> <<>>]
Frame(df) == [kind |-> "DataFrame", columns |-> df.columns, rows |-> df.rows, body |-> <<>>]
JsonValue(r) == [kind |-> "json", columns |-> <<>>, rows |-> <<>>, body |-> <<r>>]

Line(prefix, text) == [prefix |-> prefix, text |-> text]

Return(value, lines) == [result |-> value, raised |-> "", printed |-> lines, next |-> "returned"]
Escapes(e) == [result |-> Nothing, raised |-> e, printed |-> <<>>, next |-> "returned"]

----------------------------------------------------------------------------
(* The except clauses. *)

OnRequestExceptionRetry(what, e) ==
    [result |-> None, raised |-> "", printed |-> <<Line(what, e)>>, next |-> "awaiting"]

\* except requests.exceptions.RequestException as e: print(...); return None
OnRequestException(what, e) == Return(None, <<Line(what, e)>>)

OnExceptionReraise(e) == Escapes(e)

\* except Exception as e: print(f"Error processing response: {e}"); return None
OnException(e) == Return(None, <<Line("Error processing response", e)>>)

----------------------------------------------------------------------------
(* The steps of get_bus_routes_with_key and get_bus_stops_with_key between *)
(* xmltodict.parse and the return.                                         *)

\* xml_dict.get("bustime-response", {}): the mapping under the key, {} without it.
BustimeResponse(r) ==
    IF r.br = "absent" THEN [error |-> NoError, rec |-> Absent]
    ELSE [error |-> r.error, rec |-> r.rec]

HasErrorUnlessRecords(env) == env.error.shape # "absent" /\ env.rec.shape = "absent"

\* "error" in xml_dict.get("bustime-response", {})
HasError(env) == env.error.shape # "absent"

\* .get("route", []) and .get("stop", []): the value under the key, [] without it.
GetRecords(env) == IF env.rec.shape = "absent" THEN ListOf(<<>>) ELSE env.rec

AsListUnwrapped(v) == v

\* if not isinstance(routes, list): routes = [routes]
AsList(v) ==
    CASE v.shape = "list" -> v
      [] v.shape = "mapping" -> ListOf(v.items)
      [] OTHER -> ListOfNone

\* The error branch: the print reads ['error']['msg'] and the function returns None.
ApiError(env) ==
    CASE env.error.shape = "msg" -> Return(None, <<Line("API Error", env.error.msg)>>)
      [] env.error.shape = "nomsg" -> OnException("KeyError")
      [] OTHER -> OnException("TypeError")

\* Lines 94 to 107 (149 to 162): extract, wrap, build the frame, strip the labels.
Normalize(env) ==
    LET df == DataFrame(AsList(GetRecords(env))) IN
    IF df.err # "" THEN OnException(df.err)
    ELSE LET stripped == StripColumns(df) IN
         IF stripped.err # "" THEN OnException(stripped.err)
         ELSE Return(Frame(stripped), <<>>)

get_bus_routes_with_key_outcome(r) ==
    CASE r.transport # "OK" -> OnRequestException("Error fetching routes", r.transport)
      [] r.transport = "OK" /\ ~r.wellFormed -> OnException("ExpatError")
      [] r.transport = "OK" /\ r.wellFormed /\ r.br = "None" -> OnException("TypeError")
      [] OTHER ->
            LET env == BustimeResponse(r) IN
            IF HasError(env) THEN ApiError(env) ELSE Normalize(env)

get_bus_stops_with_key_outcome(r) ==
    CASE r.transport # "OK" -> OnRequestException("Error fetching stops", r.transport)
      [] r.transport = "OK" /\ ~r.wellFormed -> OnException("ExpatError")
      [] r.transport = "OK" /\ r.wellFormed /\ r.br = "None" -> OnException("TypeError")
      [] OTHER ->
            LET env == BustimeResponse(r) IN
            IF HasError(env) THEN ApiError(env) ELSE Normalize(env)

(* get_bus_routes: only RequestException is caught.  response.json() on a  *)
(* body that is no JSON raises requests.exceptions.JSONDecodeError, a      *)
(* RequestException (requests 2.27 and later); a missing                   *)
(* "bustime-response" or "routes" key raises KeyError, which escapes.      *)
get_bus_routes_outcome(r) ==
    CASE r.transport # "OK" -> OnRequestException("Error fetching routes", r.transport)
      [] r.transport = "OK" /\ ~r.wellFormed ->
            OnRequestException("Error fetching routes", "JSONDecodeError")
      [] r.transport = "OK" /\ r.wellFormed /\ (r.br = "absent" \/ r.rec.shape = "absent") ->
            Escapes("KeyError")
      [] OTHER ->
            LET df == DataFrame(r.rec) IN
            IF df.err # "" THEN Escapes(df.err) ELSE Return(Frame(df), <<>>)

\* get_bus_vehicles: whatever response.json() gives is returned as it is.
get_bus_vehicles_outcome(r) ==
    CASE r.transport # "OK" -> OnRequestException("Error fetching vehicle data", r.transport)
      [] r.transport = "OK" /\ ~r.wellFormed ->
            OnRequestException("Error fetching vehicle data", "JSONDecodeError")
      [] OTHER -> Return(JsonValue(r), <<>>)

----------------------------------------------------------------------------
(* Arguments. *)

EnvKeys == {"env-key"}                  \* os.getenv("CTA_BUS_KEY")
ApiKeys == {"key-A", "env-key"}
Routes == {"151", "X9"}
Directions == {"Northbound"}

IntId(n) == [t |-> "int", n |-> n, s |-> <<>>]
StrId(s) == [t |-> "str", n |-> 0, s |-> s]
IdValues == {IntId(7), IntId(120), StrId(<<"X", "9">>)}

IdList(items) == [kind |-> "list", items |-> items, s |-> <<>>]
IdString(s) == [kind |-> "str", items |-> <<>>, s |-> s]
VehicleIds ==
    {IdList(l) : l \in UNION {[1..n -> IdValues] : n \in 0..MaxIds}}
        \cup {IdString(<<"7", ",", "8">>), IdString(<<>>)}

\* Lines 44 and 45.
VidParam(vehicle_ids) ==
    IF vehicle_ids.kind = "list"
    THEN Join([i \in DOMAIN vehicle_ids.items |-> Str(vehicle_ids.items[i])])
    ELSE vehicle_ids.s

KeyAfterCallStored(api_key) == api_key

\* No function assigns the global API_KEY.
KeyAfterCall(api_key) == API_KEY

----------------------------------------------------------------------------
(* The calls.  Each is two steps: up to requests.get, and from the         *)
(* response to the return.                                                 *)

NoCall == [op |-> "-"]
NoResponse == Failure("-")

Init ==
    /\ API_KEY \in EnvKeys
    /\ pandasRange \in BOOLEAN
    /\ pc = "idle"
    /\ op = "-"
    /\ args = <<>>
    /\ params = <<>>
    /\ gets = 0
    /\ response = NoResponse
    /\ result = Nothing
    /\ raised = ""
    /\ printed = <<>>
    /\ prev = NoCall

Begin(name, a, p, key) ==
    /\ pc = "idle"
    /\ op' = name
    /\ args' = a
    /\ params' = p
    /\ gets' = 1
    /\ pc' = "awaiting"
    /\ API_KEY' = key
    /\ UNCHANGED <<pandasRange, response, result, raised, printed, prev>>

End(name, r, o) ==
    /\ pc = "awaiting"
    /\ op = name
    /\ response' = r
    /\ result' = o.result
    /\ raised' = o.raised
    /\ printed' = o.printed
    /\ pc' = o.next
    /\ gets' = IF o.next = "awaiting" THEN gets + 1 ELSE gets
    /\ UNCHANGED <<API_KEY, pandasRange, op, args, params, prev>>

get_bus_routes ==
    Begin("get_bus_routes", <<>>, [key |-> API_KEY, format |-> "json"], API_KEY)

get_bus_routes_response(r) == End("get_bus_routes", r, get_bus_routes_outcome(r))

get_bus_vehicles(vehicle_ids) ==
    Begin("get_bus_vehicles", [vehicle_ids |-> vehicle_ids],
          [key |-> API_KEY, vid |-> VidParam(vehicle_ids), tmres |-> "s", format |-> "json"],
          API_KEY)

get_bus_vehicles_response(r) == End("get_bus_vehicles", r, get_bus_vehicles_outcome(r))

get_bus_routes_with_key(api_key) ==
    Begin("get_bus_routes_with_key", [api_key |-> api_key], [key |-> api_key],
          KeyAfterCall(api_key))

get_bus_routes_with_key_response(r) ==
    End("get_bus_routes_with_key", r, get_bus_routes_with_key_outcome(r))

get_bus_stops_with_key(api_key, route, direction) ==
    Begin("get_bus_stops_with_key",
          [api_key |-> api_key, route |-> route, direction |-> direction],
          [key |-> api_key, rt |-> route, dir |-> direction],
          KeyAfterCall(api_key))

get_bus_stops_with_key_response(r) ==
    End("get_bus_stops_with_key", r, get_bus_stops_with_key_outcome(r))

\* The caller takes the value (the null check of the example usage) and goes on.
Consume ==
    /\ pc = "returned"
    /\ pc' = "idle"
    /\ op' = "-"
    /\ args' = <<>>
    /\ params' = <<>>
    /\ gets' = 0
    /\ response' = NoResponse
    /\ result' = Nothing
    /\ raised' = ""
    /\ printed' = <<>>
    /\ UNCHANGED <<API_KEY, pandasRange, prev>>

Calls ==
    /\ pc = "idle"
    /\ \/ get_bus_routes
       \/ \E v \in VehicleIds : get_bus_vehicles(v)
       \/ \E k \in ApiKeys : get_bus_routes_with_key(k)
       \/ \E k \in ApiKeys, rte \in Routes, d \in Directions :
                get_bus_stops_with_key(k, rte, d)

Responding(name) == pc = "awaiting" /\ op = name

Next ==
    \/ Calls
    \/ Consume
    \/ Responding("get_bus_routes") /\ \E r \in JsonResponses : get_bus_routes_response(r)
    \/ Responding("get_bus_vehicles") /\ \E r \in JsonResponses : get_bus_vehicles_response(r)
    \/ Responding("get_bus_routes_with_key")
            /\ \E r \in XmlResponses : get_bus_routes_with_key_response(r)
    \/ Responding("get_bus_stops_with_key")
            /\ \E r \in XmlResponses : get_bus_stops_with_key_response(r)

Spec == Init /\ [][Next]_vars

----------------------------------------------------------------------------
(* A second specification, for comparing two calls: the same steps over    *)
(* fewer responses and arguments, and Remember, which keeps one completed  *)
(* call aside.                                                             *)

PairXmlResponses == {r \in XmlResponses : r.rec.shape # "list"}
PairJsonResponses == {r \in JsonResponses : Len(r.rec.items) <= 1}
PairVehicleIds == {v \in VehicleIds : Len(v.items) <= 1}

Remember ==
    /\ pc = "returned"
    /\ prev.op = "-"
    /\ prev' = [op |-> op, args |-> args, response |-> response, result |-> result,
                raised |-> raised]
    /\ UNCHANGED <<API_KEY, pandasRange, pc, op, args, params, gets, response, result,
                   raised, printed>>

PairCalls ==
    /\ pc = "idle"
    /\ \/ get_bus_routes
       \/ \E v \in PairVehicleIds : get_bus_vehicles(v)
       \/ \E k \in ApiKeys : get_bus_routes_with_key(k)
       \/ \E k \in ApiKeys, rte \in Routes, d \in Directions :
                get_bus_stops_with_key(k, rte, d)

NextPair ==
    \/ PairCalls
    \/ Consume
    \/ Remember
    \/ Responding("get_bus_routes") /\ \E r \in PairJsonResponses : get_bus_routes_response(r)
    \/ Responding("get_bus_vehicles")
            /\ \E r \in PairJsonResponses : get_bus_vehicles_response(r)
    \/ Responding("get_bus_routes_with_key")
            /\ \E r \in PairXmlResponses : get_bus_routes_with_key_response(r)
    \/ Responding("get_bus_stops_with_key")
            /\ \E r \in PairXmlResponses : get_bus_stops_with_key_response(r)

SpecPair == Init /\ [][NextPair]_vars

----------------------------------------------------------------------------
(* Vocabulary of the properties. *)

Returned == pc = "returned"
XmlOp == op \in {"get_bus_routes_with_key", "get_bus_stops_with_key"}

\* The call got a parsed body whose "bustime-response" is a mapping.
GotEnvelope ==
    /\ Returned
    /\ response.transport = "OK"
    /\ response.wellFormed
    /\ response.br = "mapping"

ErrorKey == response.error.shape # "absent"
RecordKey == response.rec.shape # "absent"
HoldsRecords == response.rec.shape \in {"mapping", "list"}

NoOuterWhitespace(s) == s = <<>> \/ (s[1] \notin Whitespace /\ s[Len(s)] \notin Whitespace)

\* out is name without its leading and trailing whitespace.
IsTrimOf(out, name) ==
    /\ NoOuterWhitespace(out)
    /\ \E a \in 1..(Len(name) + 1), b \in 0..Len(name) :
          /\ out = SubSeq(name, a, b)
          /\ \A i \in 1..(a - 1) : name[i] \in Whitespace
          /\ \A i \in (b + 1)..Len(name) : name[i] \in Whitespace

InputRecords == response.rec.items
InputNames == UNION {DOMAIN InputRecords[i] : i \in DOMAIN InputRecords}

Orderings(S) == {f \in [1..Cardinality(S) -> S] : \A i, j \in DOMAIN f : f[i] = f[j] => i = j}

\* The table holds the given records row for row: its columns are the input
\* names, each trimmed, and a cell is the record's value under that name, or
\* NaN where the record has no such field.
TableHolds(recs) ==
    /\ result.kind = "DataFrame"
    /\ Len(result.rows) = Len(recs)
    /\ LET names == UNION {DOMAIN recs[i] : i \in DOMAIN recs} IN
       /\ Len(result.columns) = Cardinality(names)
       /\ \E ks \in Orderings(names) :
             /\ \A j \in DOMAIN ks : IsTrimOf(result.columns[j], ks[j])
             /\ \A i \in DOMAIN recs : \A j \in DOMAIN ks :
                   result.rows[i][j] = IF ks[j] \in DOMAIN recs[i] THEN recs[i][ks[j]] ELSE NaN

----------------------------------------------------------------------------
(* C1: when the record key of an envelope without an error holds a single  *)
(* mapping, get_bus_routes_with_key and get_bus_stops_with_key return a    *)
(* table of exactly one row, and that row is the mapping (its values under *)
(* its names, the names trimmed).                                          *)
C1_SingleMappingWrapped ==
    (GotEnvelope /\ XmlOp /\ ~ErrorKey /\ response.rec.shape = "mapping")
        => (Len(result.rows) = 1 /\ TableHolds(<<response.rec.items[1]>>))

C1_Witness ==
    /\ GotEnvelope /\ XmlOp /\ ~ErrorKey
    /\ response.rec = Bare((rt :> "151") @@ (rtnmTrail :> "Sheridan"))
    /\ result.rows = <<<<"151", "Sheridan">>>>

(* C2 as stated: an envelope with an error key makes the call return an    *)
(* error result carrying the upstream message, without raising.            *)
C2_ErrorResultReturned ==
    (GotEnvelope /\ XmlOp /\ ErrorKey) => (result.kind = "ErrorResult" /\ raised = "")

(* C2 as amended: an envelope with an error key makes the call return None *)
(* and never a table, without raising, whatever else the envelope holds    *)
(* and whatever the shape of the error value; the upstream message is      *)
(* printed, when the error value is a mapping with a msg, and is not part  *)
(* of the result.                                                          *)
C2_ErrorGivesNone ==
    (GotEnvelope /\ XmlOp /\ ErrorKey)
        => /\ result = None
           /\ raised = ""
           /\ response.error.shape = "msg"
                => printed = <<Line("API Error", response.error.msg)>>

C2_Witness ==
    /\ GotEnvelope /\ XmlOp
    /\ response.error.shape = "nomsg"
    /\ result = None
    /\ printed = <<Line("Error processing response", "KeyError")>>

(* C3: every failure of a call (a transport failure, a body that does not  *)
(* parse, an upstream error envelope) makes the call return None,          *)
(* whichever of the four operations it is, and never raise or return data. *)
C3_Failed ==
    \/ response.transport # "OK"
    \/ ~response.wellFormed
    \/ response.br = "mapping" /\ ErrorKey

C3_FailuresGiveNone == (Returned /\ C3_Failed) => (result = None /\ raised = "")

(* C4: for an envelope without an error holding N records under the record *)
(* key, the table has N rows in the order of the records and every value   *)
(* is in its row unchanged, none added and none dropped.                   *)
C4_RowsPassThrough ==
    (GotEnvelope /\ XmlOp /\ ~ErrorKey /\ HoldsRecords) => TableHolds(InputRecords)

C4_Witness ==
    /\ GotEnvelope /\ XmlOp /\ ~ErrorKey
    /\ response.rec = ListOf(<<(rtnmTrail :> "Sheridan"),
                               (rt :> "151") @@ (rtnmTrail :> "151")>>)
    /\ result.rows = <<<<"Sheridan", NaN>>, <<"151", "151">>>>

(* C5: every column name of a returned table is free of leading and        *)
(* trailing whitespace, and the column names are exactly the input field   *)
(* names, each trimmed.                                                    *)
C5_FieldNamesTrimmed ==
    (GotEnvelope /\ XmlOp /\ result.kind = "DataFrame")
        => /\ \A j \in DOMAIN result.columns :
                 /\ NoOuterWhitespace(result.columns[j])
                 /\ \E k \in InputNames : IsTrimOf(result.columns[j], k)
           /\ \A k \in InputNames :
                 \E j \in DOMAIN result.columns : IsTrimOf(result.columns[j], k)

C5_Witness ==
    /\ GotEnvelope /\ XmlOp
    /\ InputNames = {rtLead, rtnmTrail}
    /\ result.kind = "DataFrame"
    /\ result.columns = <<rt, <<"n", " ", "m">>>>

(* C6: an envelope without an error and without the record key is treated  *)
(* as an empty sequence: the call returns a table with zero records.       *)
C6_MissingKeyGivesEmptyTable ==
    (GotEnvelope /\ XmlOp /\ ~ErrorKey /\ ~RecordKey)
        => (result.kind = "DataFrame" /\ result.rows = <<>> /\ raised = "")

(* C7: a call issues exactly one GET whatever its outcome: one is out      *)
(* while the call waits, and one has been issued when it returns.          *)
C7_OneGetPerCall == pc \in {"awaiting", "returned"} => gets = 1

C7_Witness == Returned /\ response.transport = "HTTPError" /\ result = None /\ gets = 1

(* C8: no step changes API_KEY, and two calls of the same operation with   *)
(* the same arguments and the same upstream response end the same way,     *)
(* whatever calls were made in between.                                    *)
C8_SameAsBefore ==
    (Returned /\ prev.op = op /\ prev.args = args /\ prev.response = response)
        => (prev.result = result /\ prev.raised = raised)

RECURSIVE SplitComma(_, _)
SplitComma(s, cur) ==
    IF s = <<>> THEN <<cur>>
    ELSE IF Head(s) = "," THEN <<cur>> \o SplitComma(Tail(s), <<>>)
    ELSE SplitComma(Tail(s), Append(cur, Head(s)))

DigitChars == {"0", "1", "2", "3", "4", "5", "6", "7", "8", "9"}
DigitValue(c) ==
    CASE c = "0" -> 0 [] c = "1" -> 1 [] c = "2" -> 2 [] c = "3" -> 3 [] c = "4" -> 4
      [] c = "5" -> 5 [] c = "6" -> 6 [] c = "7" -> 7 [] c = "8" -> 8 [] OTHER -> 9

RECURSIVE DecimalValue(_)
DecimalValue(s) ==
    IF s = <<>> THEN 0
    ELSE 10 * DecimalValue(SubSeq(s, 1, Len(s) - 1)) + DigitValue(s[Len(s)])

IsStringOf(piece, v) ==
    IF v.t = "str" THEN piece = v.s
    ELSE /\ piece # <<>>
         /\ \A i \in DOMAIN piece : piece[i] \in DigitChars
         /\ Len(piece) > 1 => piece[1] # "0"
         /\ DecimalValue(piece) = v.n

C9_VidIsCommaJoined ==
    (pc \in {"awaiting", "returned"} /\ op = "get_bus_vehicles")
        => LET ids == args.vehicle_ids IN
           IF ids.kind = "str" THEN params.vid = ids.s
           ELSE IF ids.items = <<>> THEN params.vid = <<>>
           ELSE LET pieces == SplitComma(params.vid, <<>>) IN
                /\ Len(pieces) = Len(ids.items)
                /\ \A i \in DOMAIN pieces : IsStringOf(pieces[i], ids.items[i])

C9_Witness ==
    /\ pc = "awaiting" /\ op = "get_bus_vehicles"
    /\ args.vehicle_ids = IdList(<<IntId(120), StrId(<<"X", "9">>)>>)
    /\ params.vid = <<"1", "2", "0", ",", "X", "9">>

(* C10: the error check comes before the extraction: an envelope holding   *)
(* both an error key and records makes the call return None, and no record *)
(* reaches the caller.                                                     *)
C10_ErrorBeforeRecords ==
    (GotEnvelope /\ XmlOp /\ ErrorKey /\ HoldsRecords)
        => (result.kind = "None" /\ result.rows = <<>> /\ result.columns = <<>>)

C10_Witness ==
    /\ GotEnvelope /\ XmlOp
    /\ response.error.shape = "msg"
    /\ response.rec.shape = "list"
    /\ result.kind = "None"

====
